---- MODULE Spec2Model ----
(***************************************************************************)
(* Model of vultan's revision scheduling engine: the State snapshot        *)
(* (cards and decks keyed by uid), State::deal / Hand::from, the revision  *)
(* session Hand::revise_until_none_fail, and the RevisionSettings          *)
(* transform it applies on every answer.                                   *)
(*                                                                         *)
(* Number representation.  The source computes in f64 days; the model uses *)
(* fixed point: intervals and days-overdue are integers in thousandths of  *)
(* a day, coefficients are integers in thousandths, memorisation factors   *)
(* are integers, and every product is truncated toward zero after each     *)
(* multiplication.  Timestamps are integer seconds relative to the instant *)
(* the snapshot was loaded (0).                                            *)
(***************************************************************************)
EXTENDS Integers, Sequences, FiniteSets, TLC

(* ------------------------------ bounds --------------------------------- *)
\* number of cards in the snapshot (paths are 1..NumCards)
NumCards == 3
\* number of Fail answers a session's callback gives at most
MaxFails == 2
\* number of Fail answers it gives at most to a card that is alone in its hand
MaxFailsAlone == 5
\* number of reconciliations and write-backs a snapshot goes through
MaxSyncs == 2
\* number of hours the clock advances at most
MaxTicks == 1
\* number of reviews one card is given at most
MaxReviews == 2
\* number of half days the clock advances between reviews at most
MaxWaits == 1
\* a card is reviewed again only while its interval is at most this (thousandths of a day)
MaxInterval == 30000

(* --------------------------- program constants ------------------------- *)
Scale == 1000
SecondsInMinute == 60
MinutesInHour == 60
HoursInDay == 24
DefaultFactor == 1300
FailFactorDelta == 200
HardFactorDelta == 150
EasyFactorDelta == 150
HardCoefTenths == 12

SecondsInHour == SecondsInMinute * MinutesInHour

Paths == 1..NumCards
DeckNames == {"d1", "d2"}
Scores == {"Fail", "Hard", "Pass", "Easy"}
\* what the scoring callback can return: Ok(score), Err(exit signal), Err(other)
CallbackResults == Scores \cup {"Exit", "OtherError"}
NoCard == [path |-> 0]

(* ------------------------------ arithmetic ----------------------------- *)
Max(a, b) == IF a >= b THEN a ELSE b

\* integer division rounding toward zero (Rust `/` on i64, `as i64` on f64)
TruncDiv(a, b) == IF a >= 0 THEN a \div b ELSE -((-a) \div b)

\* fixed-point product of a value and a coefficient in thousandths
MulCoef(x, coef) == TruncDiv(x * coef, Scale)

(* --------------------------- IntervalCoefficients ---------------------- *)
IntervalCoefficientsNew(pass_coef, easy_coef, fail_coef) ==
    [pass_coef |-> pass_coef, easy_coef |-> easy_coef, fail_coef |-> fail_coef]

IntervalCoefficientsDefault == IntervalCoefficientsNew(1000, 1300, 0)

(* ----------------------------- RevisionSettings ------------------------ *)
RevisionSettingsNew(due, interval, memorisation_factor) ==
    [due |-> due, interval |-> interval, memorisation_factor |-> memorisation_factor]

RevisionSettingsDefault(present) == RevisionSettingsNew(present, 0, DefaultFactor)

\* chrono Duration::num_hours: whole hours, truncated toward zero
NumHours(seconds) == TruncDiv(seconds, SecondsInHour)

\* mutant: days overdue are the whole days since the due date
DaysOverdue_WholeDays(rs, present) ==
    TruncDiv(present - rs.due, HoursInDay * SecondsInHour) * Scale

\* create_interval_calculation_settings: days overdue, quantised by hour
DaysOverdue(rs, present) == TruncDiv(NumHours(present - rs.due) * Scale, HoursInDay)

CalculateFailInterval(rs, coefficients, days_overdue) ==
    MulCoef(rs.interval, coefficients.fail_coef)

\* mutant: the hard interval has no fallback
CalculateHardInterval_NoFallback(rs, coefficients, days_overdue) ==
    LET base_num_days == rs.interval + TruncDiv(days_overdue * 25, 100)
    IN  MulCoef(TruncDiv(HardCoefTenths * base_num_days, 10), coefficients.pass_coef)

CalculateHardInterval(rs, coefficients, days_overdue) ==
    LET fallback == rs.interval + Scale
        base_num_days == rs.interval + TruncDiv(days_overdue * 25, 100)
    IN  Max(fallback,
            MulCoef(TruncDiv(HardCoefTenths * base_num_days, 10), coefficients.pass_coef))

\* mutant: the pass interval has no fallback
CalculatePassInterval_NoFallback(rs, coefficients, days_overdue, hard_interval) ==
    LET base_num_days == rs.interval + TruncDiv(days_overdue * 5, 10)
        memorisation_coef == rs.memorisation_factor
    IN  MulCoef(MulCoef(base_num_days, memorisation_coef), coefficients.pass_coef)

\* mutant: the pass fallback is the hard interval itself
CalculatePassInterval_FallbackHard(rs, coefficients, days_overdue, hard_interval) ==
    LET fallback == hard_interval
        base_num_days == rs.interval + TruncDiv(days_overdue * 5, 10)
        memorisation_coef == rs.memorisation_factor
    IN  Max(fallback,
            MulCoef(MulCoef(base_num_days, memorisation_coef), coefficients.pass_coef))

CalculatePassInterval(rs, coefficients, days_overdue, hard_interval) ==
    LET fallback == hard_interval + Scale
        base_num_days == rs.interval + TruncDiv(days_overdue * 5, 10)
        memorisation_coef == rs.memorisation_factor
    IN  Max(fallback,
            MulCoef(MulCoef(base_num_days, memorisation_coef), coefficients.pass_coef))

CalculateEasyInterval(rs, coefficients, days_overdue, pass_interval) ==
    LET fallback == pass_interval + Scale
        base_num_days == rs.interval + days_overdue
        memorisation_coef == rs.memorisation_factor
    IN  Max(fallback,
            MulCoef(MulCoef(MulCoef(base_num_days, memorisation_coef),
                            coefficients.pass_coef),
                    coefficients.easy_coef))

CalculatePossibleIntervals(rs, coefficients, present) ==
    LET days_overdue == DaysOverdue(rs, present)
        fail_interval == CalculateFailInterval(rs, coefficients, days_overdue)
        hard_interval == CalculateHardInterval(rs, coefficients, days_overdue)
        pass_interval == CalculatePassInterval(rs, coefficients, days_overdue, hard_interval)
        easy_interval == CalculateEasyInterval(rs, coefficients, days_overdue, pass_interval)
    IN  [Fail |-> fail_interval, Hard |-> hard_interval,
         Pass |-> pass_interval, Easy |-> easy_interval]

\* mutant: Hard is given the pass interval
CalculateNewInterval_PassForHard(rs, score, coefficients, present) ==
    CalculatePossibleIntervals(rs, coefficients, present)[IF score = "Hard" THEN "Pass" ELSE score]

CalculateNewInterval(rs, score, coefficients, present) ==
    CalculatePossibleIntervals(rs, coefficients, present)[score]

\* mutant: the factor is not floored
CalculateNewMemorisationFactor_NoFloor(rs, score) ==
    CASE score = "Fail" -> rs.memorisation_factor - FailFactorDelta
      [] score = "Hard" -> rs.memorisation_factor - HardFactorDelta
      [] score = "Pass" -> rs.memorisation_factor
      [] score = "Easy" -> rs.memorisation_factor + EasyFactorDelta

\* mutant: Hard lowers the factor as much as Fail
CalculateNewMemorisationFactor_HardAsFail(rs, score) ==
    CASE score = "Fail" -> Max(DefaultFactor, rs.memorisation_factor - FailFactorDelta)
      [] score = "Hard" -> Max(DefaultFactor, rs.memorisation_factor - FailFactorDelta)
      [] score = "Pass" -> Max(DefaultFactor, rs.memorisation_factor)
      [] score = "Easy" -> Max(DefaultFactor, rs.memorisation_factor + EasyFactorDelta)

CalculateNewMemorisationFactor(rs, score) ==
    CASE score = "Fail" -> Max(DefaultFactor, rs.memorisation_factor - FailFactorDelta)
      [] score = "Hard" -> Max(DefaultFactor, rs.memorisation_factor - HardFactorDelta)
      [] score = "Pass" -> Max(DefaultFactor, rs.memorisation_factor)
      [] score = "Easy" -> Max(DefaultFactor, rs.memorisation_factor + EasyFactorDelta)

\* seconds_in_interval as i64, added to the previous due date (the seconds in
\* a day and the scale are both divided by 100 to keep the product small)
CalculateNewDueDate(rs, new_interval) ==
    LET seconds_in_day == SecondsInMinute * MinutesInHour * HoursInDay
        seconds_in_interval ==
            TruncDiv((seconds_in_day \div 100) * new_interval, Scale \div 100)
    IN  rs.due + seconds_in_interval

\* mutant: the new due date is counted from the instant of the review
RevisionSettingsTransform_FromPresent(rs, score, coefficients, present) ==
    LET new_interval == CalculateNewInterval(rs, score, coefficients, present)
    IN  [due |-> CalculateNewDueDate([rs EXCEPT !.due = present], new_interval),
         interval |-> new_interval,
         memorisation_factor |-> CalculateNewMemorisationFactor(rs, score)]

RevisionSettingsTransform(rs, score, coefficients, present) ==
    LET new_interval == CalculateNewInterval(rs, score, coefficients, present)
    IN  [due |-> CalculateNewDueDate(rs, new_interval),
         interval |-> new_interval,
         memorisation_factor |-> CalculateNewMemorisationFactor(rs, score)]

(* ---------------------------------- Card ------------------------------- *)
CardNew(path, card_decks, question, answer, revision_settings) ==
    [path |-> path, decks |-> card_decks, question |-> question,
     answer |-> answer, revision_settings |-> revision_settings]

\* mutant: the answer is not carried over
WithRevisionSettings_DropsAnswer(c, revision_settings) ==
    [c EXCEPT !.revision_settings = revision_settings, !.answer = ""]

WithRevisionSettings(c, revision_settings) ==
    [c EXCEPT !.revision_settings = revision_settings]

CardTransform(c, score, coefficients, present) ==
    WithRevisionSettings(c,
        RevisionSettingsTransform(c.revision_settings, score, coefficients, present))

IsDue(c, present) == present >= c.revision_settings.due

InDeck(c, deck_id) == \E i \in 1..Len(c.decks) : c.decks[i] = deck_id

(* ------------------------------ ParsingConfig -------------------------- *)
\* the patterns are left at their defaults; configurations differ in the delimiter
ParsingConfigNew(deck_delimiter) ==
    [decks_pattern |-> "tags:", deck_delimiter |-> deck_delimiter,
     question_pattern |-> "# Question", answer_pattern |-> "# Answer"]

ParsingConfigDefault == ParsingConfigNew(":")

(* ---------------------------------- Deck ------------------------------- *)
\* the values of a map keyed by paths, as a sequence in ascending path order
RECURSIVE ValuesFrom(_, _)
ValuesFrom(map, uid) ==
    IF uid > NumCards THEN <<>>
    ELSE (IF uid \in DOMAIN map THEN <<map[uid]>> ELSE <<>>) \o ValuesFrom(map, uid + 1)

DeckNew(name, card_paths, coefficients) ==
    [name |-> name, card_paths |-> card_paths, interval_coefficients |-> coefficients]

\* the fold of many_from_cards for one name: in the order of the cards, a
\* card's path is pushed once for every entry of its deck list that is the name
RECURSIVE CardPaths(_, _)
CardPaths(cs, name) ==
    IF cs = <<>> THEN <<>>
    ELSE LET entries == SelectSeq(Head(cs).decks, LAMBDA d : d = name)
         IN  [k \in 1..Len(entries) |-> Head(cs).path] \o CardPaths(Tail(cs), name)

\* mutant: a deck for every known name, carried or not
ManyFromCards_EveryName(cs) ==
    [n \in DeckNames |-> DeckNew(n, CardPaths(cs, n), IntervalCoefficientsDefault)]

\* deck::many_from_cards over a sequence of cards: one deck per name that is an
\* entry of some card's deck list (the Vec returned is in no particular order,
\* so the decks are given by name)
ManyFromCards(cs) ==
    LET names == UNION {{cs[i].decks[j] : j \in 1..Len(cs[i].decks)} : i \in 1..Len(cs)}
    IN  [n \in names |-> DeckNew(n, CardPaths(cs, n), IntervalCoefficientsDefault)]

(* ------------------------------- sequences ----------------------------- *)
\* every ordering of a finite set, each element once
Orderings(S) ==
    {s \in [1..Cardinality(S) -> S] : \A x \in S : \E i \in 1..Cardinality(S) : s[i] = x}

(* --------------------------------- state ------------------------------- *)
VARIABLES
    card_parsing_config,    \* State.card_parsing_config
    cards,                  \* State.cards: path -> Card
    decks,                  \* State.decks: name -> Deck
    now,                    \* Utc::now(), seconds
    pc,                     \* "idle", "loop", "judging", "done", "error"
    deck_name,              \* the deck name given to State::deal
    error,                  \* the StateError deal returned, or "None"
    queue,                  \* Hand.queue
    interval_coefficients,  \* Hand.interval_coefficients
    card,                   \* the card popped and handed to the callback
    n_remaining,            \* the count handed to the callback
    output,                 \* revise_until_none_fail's output vector
    initial,                \* history: the queue Hand::from built
    dealt_at,               \* history: the instant Hand::from ran
    log                     \* history: one entry per answered callback invocation

vars == <<card_parsing_config, cards, decks, now, pc, deck_name, error, queue, interval_coefficients,
          card, n_remaining, output, initial, dealt_at, log>>

(* ------------------------- the initial snapshot ------------------------ *)
\* scheduling states of stored cards: reviewed a day before it fell due four
\* days ago; brand new (due at creation); due an hour from now
OverdueRevisionSettings == RevisionSettingsNew(-4 * HoursInDay * SecondsInHour, 1000, 2000)
SoonDueRevisionSettings == RevisionSettingsNew(SecondsInHour, 1000, 1500)

\* the kinds of card in a snapshot (a card's path is set by Init)
StoredCards ==
    <<CardNew(0, <<"d1">>, "q", "a", OverdueRevisionSettings),
      CardNew(0, <<"d1", "d2">>, "q", "a", RevisionSettingsDefault(0)),
      CardNew(0, <<"d2">>, "q", "a", SoonDueRevisionSettings)>>

\* the coefficients the user has given each deck
StoredCoefficients(name) ==
    IF name = "d1" THEN IntervalCoefficientsNew(1000, 2000, 0)
    ELSE IntervalCoefficientsDefault

\* every snapshot of NumCards cards, up to renaming the paths (kinds are given
\* to the paths in ascending order; the shuffle of a deal gives every order)
Init ==
    /\ \E kind \in [Paths -> 1..Len(StoredCards)] :
          /\ \A p, q \in Paths : p < q => kind[p] <= kind[q]
          /\ cards = [p \in Paths |-> [StoredCards[kind[p]] EXCEPT !.path = p]]
    /\ decks = [n \in DOMAIN ManyFromCards(cards) |->
                  [ManyFromCards(cards)[n] EXCEPT
                      !.interval_coefficients = StoredCoefficients(n)]]
    /\ card_parsing_config = ParsingConfigDefault
    /\ now = 0
    /\ pc = "idle"
    /\ deck_name = "none"
    /\ error = "None"
    /\ queue = <<>>
    /\ interval_coefficients = IntervalCoefficientsDefault
    /\ card = NoCard
    /\ n_remaining = 0
    /\ output = <<>>
    /\ initial = <<>>
    /\ dealt_at = 0
    /\ log = <<>>

(* -------------------------------- Hand::from --------------------------- *)
\* mutant: the cards of a deck are those its card_paths lists
FilterCardsInDeck_ByCardPaths(name, cs) ==
    {c \in cs : \E i \in 1..Len(decks[name].card_paths) : decks[name].card_paths[i] = c.path}

FilterCardsInDeck(name, cs) == {c \in cs : InDeck(c, name)}

\* mutant: a card due exactly now is not taken
FilterDueCards_Strict(cs, present) == {c \in cs : present > c.revision_settings.due}

FilterDueCards(cs, present) == {c \in cs : IsDue(c, present)}

\* shuffle_cards: any ordering of the due cards
ShuffleCards(cs) == Orderings(cs)

\* mutant: the count of due cards is matched before the count of deck cards
HandFromError_DueFirst(name, cs, present) ==
    LET deck_cards == FilterCardsInDeck(name, cs)
        due_cards == FilterDueCards(deck_cards, present)
    IN  CASE Cardinality(due_cards) = 0 -> "NoDueCards"
          [] Cardinality(deck_cards) = 0 -> "EmptyDeck"
          [] OTHER -> "None"

\* Hand::from: the error it returns, or "None"
HandFromError(name, cs, present) ==
    LET deck_cards == FilterCardsInDeck(name, cs)
        due_cards == FilterDueCards(deck_cards, present)
    IN  CASE Cardinality(deck_cards) = 0 -> "EmptyDeck"
          [] Cardinality(due_cards) = 0 -> "NoDueCards"
          [] OTHER -> "None"

\* mutant: the hand is built before the deck is looked up
Deal_HandFirst(name) ==
    /\ pc = "idle"
    /\ deck_name' = name
    /\ dealt_at' = now
    /\ LET pool == {cards[p] : p \in DOMAIN cards}
           err == HandFromError(name, pool, now)
       IN  IF err # "None"
           THEN /\ error' = err
                /\ pc' = "error"
                /\ UNCHANGED <<queue, interval_coefficients, initial>>
           ELSE IF name \notin DOMAIN decks
           THEN /\ error' = "MissingDeck"
                /\ pc' = "error"
                /\ UNCHANGED <<queue, interval_coefficients, initial>>
           ELSE /\ error' = "None"
                /\ pc' = "loop"
                /\ queue' \in ShuffleCards(FilterDueCards(FilterCardsInDeck(name, pool), now))
                /\ initial' = queue'
                /\ interval_coefficients' = decks[name].interval_coefficients
    /\ UNCHANGED <<card_parsing_config, cards, decks, now, card, n_remaining, output, log>>

\* State::deal
Deal(name) ==
    /\ pc = "idle"
    /\ deck_name' = name
    /\ dealt_at' = now
    /\ IF name \notin DOMAIN decks
       THEN /\ error' = "MissingDeck"
            /\ pc' = "error"
            /\ UNCHANGED <<queue, interval_coefficients, initial>>
       ELSE LET pool == {cards[p] : p \in DOMAIN cards}
                err == HandFromError(name, pool, now)
            IN  IF err # "None"
                THEN /\ error' = err
                     /\ pc' = "error"
                     /\ UNCHANGED <<queue, interval_coefficients, initial>>
                ELSE /\ error' = "None"
                     /\ pc' = "loop"
                     /\ queue' \in ShuffleCards(FilterDueCards(FilterCardsInDeck(name, pool), now))
                     /\ initial' = queue'
                     /\ interval_coefficients' = decks[name].interval_coefficients
    /\ UNCHANGED <<card_parsing_config, cards, decks, now, card, n_remaining, output, log>>

(* ----------------------- Hand::revise_until_none_fail ------------------ *)
\* the callback is invoked at most once per card and once more per Fail
MaxPresentations == Max(NumCards + MaxFails, 1 + MaxFailsAlone)

\* the Fail answers the callback may give in this session
FailsAllowed == IF Len(initial) = 1 THEN MaxFailsAlone ELSE MaxFails

\* history: the Fail answers given so far
NumFails == Cardinality({i \in 1..Len(log) : log[i].result = "Fail"})

\* mutant: the loop pops the back of the queue
Present_PopBack ==
    /\ pc = "loop"
    /\ Len(queue) > 0
    /\ Len(log) < MaxPresentations
    /\ n_remaining' = Len(queue)
    /\ card' = queue[Len(queue)]
    /\ queue' = SubSeq(queue, 1, Len(queue) - 1)
    /\ pc' = "judging"
    /\ UNCHANGED <<card_parsing_config, cards, decks, now, deck_name, error, interval_coefficients,
                   output, initial, dealt_at, log>>

\* mutant: the card handed to the callback stays at the front of the queue
Present_KeepsQueued ==
    /\ pc = "loop"
    /\ Len(queue) > 0
    /\ Len(log) < MaxPresentations
    /\ n_remaining' = Len(queue)
    /\ card' = Head(queue)
    /\ queue' = queue
    /\ pc' = "judging"
    /\ UNCHANGED <<card_parsing_config, cards, decks, now, deck_name, error, interval_coefficients,
                   output, initial, dealt_at, log>>

\* loop head: the queue is not empty; count it, pop the front, call the callback
Present ==
    /\ pc = "loop"
    /\ Len(queue) > 0
    /\ Len(log) < MaxPresentations
    /\ n_remaining' = Len(queue)
    /\ card' = Head(queue)
    /\ queue' = Tail(queue)
    /\ pc' = "judging"
    /\ UNCHANGED <<card_parsing_config, cards, decks, now, deck_name, error, interval_coefficients,
                   output, initial, dealt_at, log>>

LogEntry(result) ==
    [card |-> card, n_remaining |-> n_remaining, rest |-> queue, out |-> output,
     result |-> result, at |-> now]

\* mutant: a failed card is not put back
AnswerFail_NotRequeued ==
    /\ queue' = queue
    /\ output' = output
    /\ pc' = "loop"

\* mutant: a failed card goes to the front of the queue
AnswerFail_PushFront ==
    /\ queue' = <<CardTransform(card, "Fail", interval_coefficients, now)>> \o queue
    /\ output' = output
    /\ pc' = "loop"

\* mutant: a failed card is transformed with the coefficients of the first deck
\* it lists
AnswerFail_CardsFirstDeck ==
    /\ queue' = Append(queue, CardTransform(card, "Fail",
                                            decks[card.decks[1]].interval_coefficients, now))
    /\ output' = output
    /\ pc' = "loop"

\* Ok(Fail): the transformed card goes to the back of the queue
AnswerFail ==
    /\ queue' = Append(queue, CardTransform(card, "Fail", interval_coefficients, now))
    /\ output' = output
    /\ pc' = "loop"

\* mutant: the score is applied to the card as it was dealt, its Fails forgotten
AnswerOtherScore_FromDealt(score) ==
    /\ output' = Append(output,
                        CardTransform(CHOOSE c \in {initial[i] : i \in 1..Len(initial)} :
                                          c.path = card.path,
                                      score, interval_coefficients, now))
    /\ queue' = queue
    /\ pc' = "loop"

\* mutant: the transformed card goes to the front of the output
AnswerOtherScore_OutputFront(score) ==
    /\ output' = <<CardTransform(card, score, interval_coefficients, now)>> \o output
    /\ queue' = queue
    /\ pc' = "loop"

\* Ok(any other score): the transformed card goes to the output
AnswerOtherScore(score) ==
    /\ output' = Append(output, CardTransform(card, score, interval_coefficients, now))
    /\ queue' = queue
    /\ pc' = "loop"

\* mutant: on exit the popped card is left out
AnswerExit_WithoutPopped ==
    /\ output' = output \o queue
    /\ queue' = queue
    /\ pc' = "done"

\* Err(ReceivedExitApplicationSignal): the popped card and the queue are output
\* and the call returns
AnswerExit ==
    /\ output' = output \o <<card>> \o queue
    /\ queue' = queue
    /\ pc' = "done"

\* mutant: after any other error the card is put back to be judged again
AnswerOtherError_Requeues ==
    /\ output' = output
    /\ queue' = Append(queue, card)
    /\ pc' = "loop"

\* Err(any other error): the match arm does nothing and the loop goes on
AnswerOtherError ==
    /\ output' = output
    /\ queue' = queue
    /\ pc' = "loop"

\* the callback returns and the match runs
Answer(result) ==
    /\ pc = "judging"
    /\ result = "Fail" => NumFails < FailsAllowed
    /\ CASE result = "Fail" -> AnswerFail
         [] result \in {"Hard", "Pass", "Easy"} -> AnswerOtherScore(result)
         [] result = "Exit" -> AnswerExit
         [] OTHER -> AnswerOtherError
    /\ log' = Append(log, LogEntry(result))
    /\ card' = NoCard
    /\ UNCHANGED <<card_parsing_config, cards, decks, now, deck_name, error, interval_coefficients,
                   n_remaining, initial, dealt_at>>

\* mutant: the loop gives up once every card has been failed once on average
Return_RetriesBounded ==
    /\ pc = "loop"
    /\ Len(queue) = 0 \/ NumFails >= Len(initial)
    /\ pc' = "done"
    /\ UNCHANGED <<card_parsing_config, cards, decks, now, deck_name, error, queue, interval_coefficients,
                   card, n_remaining, output, initial, dealt_at, log>>

\* the queue is empty: Ok(output)
Return ==
    /\ pc = "loop"
    /\ Len(queue) = 0
    /\ pc' = "done"
    /\ UNCHANGED <<card_parsing_config, cards, decks, now, deck_name, error, queue, interval_coefficients,
                   card, n_remaining, output, initial, dealt_at, log>>

\* the clock advances by an hour, before a deal or while the reviewer thinks
Tick ==
    /\ pc \in {"idle", "judging"}
    /\ now < MaxTicks * SecondsInHour
    /\ now' = now + SecondsInHour
    /\ UNCHANGED <<card_parsing_config, cards, decks, pc, deck_name, error, queue, interval_coefficients,
                   card, n_remaining, output, initial, dealt_at, log>>

Next ==
    \/ \E name \in DeckNames : Deal(name)
    \/ Present
    \/ \E result \in CallbackResults : Answer(result)
    \/ Return
    \/ Tick

Spec == Init /\ [][Next]_vars

\* the snapshot with one card of each kind (further cards are of the last kind)
LiveInit ==
    /\ Init
    /\ \A p \in Paths :
          cards[p].decks = StoredCards[IF p < Len(StoredCards) THEN p
                                       ELSE Len(StoredCards)].decks

\* the loop's steps are taken whenever they can be, and the callback returns
LiveSpec ==
    /\ LiveInit
    /\ [][Next]_vars
    /\ WF_vars(Present)
    /\ WF_vars(\E result \in CallbackResults : Answer(result))
    /\ WF_vars(Return)

(* ------------------------- history the claims read --------------------- *)
InSession == pc \in {"loop", "judging", "done"}

Last(s) == s[Len(s)]

\* the session ended on the exit signal
Cancelled == pc = "done" /\ Len(log) > 0 /\ Last(log).result = "Exit"

\* the cards handed to the callback so far, in order
Presentations ==
    [i \in 1..Len(log) |-> log[i].card] \o (IF pc = "judging" THEN <<card>> ELSE <<>>)

OnlyScoresSoFar == \A i \in 1..Len(log) : log[i].result \in Scores

\* how many entries of a sequence of cards have the path
Occurrences(s, path) == Cardinality({i \in 1..Len(s) : s[i].path = path})

\* the cards the session holds: queued, being judged, output
Held == queue \o (IF pc = "judging" THEN <<card>> ELSE <<>>) \o output

\* a card after the Fail answers log[i..] gave to it
RECURSIVE AfterFails(_, _)
AfterFails(c, i) ==
    IF i > Len(log) THEN c
    ELSE AfterFails(IF log[i].result = "Fail" /\ log[i].card.path = c.path
                    THEN CardTransform(c, "Fail", interval_coefficients, log[i].at)
                    ELSE c,
                    i + 1)

\* the entries of the log answered Hard, Pass or Easy, in order
Judged == SelectSeq(log, LAMBDA e : e.result \in {"Hard", "Pass", "Easy"})

(* --------------------------------- claims ------------------------------ *)

\* C1: while the callback has returned only scores, every card of the initial
\* queue is in exactly one place (queue, being judged, output), nothing else is
\* held, and on return the queue is empty and the output has one card per
\* initial card.
C1_EveryCardInOnePlace ==
    (InSession /\ OnlyScoresSoFar) =>
        /\ \A i \in 1..Len(initial) : Occurrences(Held, initial[i].path) = 1
        /\ Len(Held) = Len(initial)
        /\ pc = "done" =>
              /\ queue = <<>>
              /\ Len(output) = Len(initial)
              /\ \A i \in 1..Len(initial) : Occurrences(output, initial[i].path) = 1

C1_Witness ==
    /\ pc = "done"
    /\ OnlyScoresSoFar
    /\ NumFails >= 1
    /\ Len(initial) >= 2

\* C2: a card whose callback invocation ended in an error other than the exit
\* signal is returned, as it was presented, in the session's result.
C2_ErroredCardIsReturned ==
    pc = "done" =>
        \A i \in 1..Len(log) :
            log[i].result = "OtherError" =>
                \E j \in 1..Len(output) : output[j] = log[i].card

\* C3: on the exit signal the call returns the cards already output, then the
\* card being judged as popped, then the queue in order; the output is as long
\* as the hand was at the start.
C3_CancellationOutput ==
    Cancelled =>
        /\ output = Last(log).out \o <<Last(log).card>> \o Last(log).rest
        /\ Len(output) = Len(initial)

\* C4 as stated: on cancellation every card still unprocessed is output with
\* the scheduling state it had when the hand was built, whatever scores came
\* before.
C4_RemainderAsDealt ==
    Cancelled =>
        /\ output = Last(log).out \o <<Last(log).card>> \o Last(log).rest
        /\ \A j \in (Len(Last(log).out) + 1)..Len(output) :
              \E i \in 1..Len(initial) : output[j] = initial[i]

\* C4 amended: on cancellation the n unprocessed cards are output as they stand
\* at that moment: a card never scored Fail as dealt, a card scored Fail before
\* with the state its Fail transforms gave it; before them come the judged
\* cards as transformed.
C4_RemainderAsItStands ==
    Cancelled =>
        /\ Len(output) = Len(Last(log).out) + Last(log).n_remaining
        /\ output = Last(log).out \o <<Last(log).card>> \o Last(log).rest
        /\ \A j \in (Len(Last(log).out) + 1)..Len(output) :
              \E i \in 1..Len(initial) : output[j] = AfterFails(initial[i], 1)
        /\ Len(Last(log).out) = Len(Judged)
        /\ \A j \in 1..Len(Judged) :
              output[j] = CardTransform(Judged[j].card, Judged[j].result,
                                        interval_coefficients, Judged[j].at)

C4_Witness ==
    /\ Cancelled
    /\ Last(log).n_remaining >= 2
    /\ Len(Last(log).out) >= 1
    /\ \E j \in 1..Len(output) : \E i \in 1..Len(initial) :
          /\ output[j].path = initial[i].path
          /\ output[j] # initial[i]
          /\ output[j] = AfterFails(initial[i], 1)

\* C5: with a callback that never returns Fail and never cancels, the call
\* returns after exactly n invocations with n output cards and an empty queue.
C5_NoFailSession ==
    (pc = "done" /\ \A i \in 1..Len(log) : log[i].result \notin {"Fail", "Exit"}) =>
        /\ Len(log) = Len(initial)
        /\ Len(output) = Len(initial)
        /\ queue = <<>>

\* C6: a session in which every card is failed only finitely often returns.
C6_SessionReturns == InSession ~> (pc = "done")

C6_Witness ==
    /\ pc = "done"
    /\ ~Cancelled
    /\ NumFails = MaxFails
    /\ Len(initial) >= 2

\* C7 as stated: a card scored Fail is never the card presented next, whatever
\* the size of the queue.
C7_NeverPresentedNext ==
    \A i \in 1..Len(log) :
        (log[i].result = "Fail" /\ i + 1 <= Len(Presentations)) =>
            Presentations[i + 1].path # log[i].card.path

\* C7 amended: a card scored Fail is kept in the queue with its Fail-transformed
\* state and presented again with it; it is not presented next when another
\* card was queued, and is presented next when it was the only card left.
C7_FailRequeued ==
    \A i \in 1..Len(log) :
        log[i].result = "Fail" =>
            LET failed == CardTransform(log[i].card, "Fail", interval_coefficients, log[i].at)
                next == i + Len(log[i].rest) + 1
            IN  /\ next <= Len(Presentations) => Presentations[next] = failed
                /\ next > Len(Presentations) =>
                      \/ \E k \in 1..Len(queue) : queue[k] = failed
                      \/ Cancelled /\ \E k \in 1..Len(output) : output[k] = failed
                /\ (log[i].rest # <<>> /\ i + 1 <= Len(Presentations)) =>
                      Presentations[i + 1].path # log[i].card.path

C7_Witness ==
    \E i \in 1..Len(log) :
        /\ log[i].result = "Fail"
        /\ Len(log[i].rest) >= 1
        /\ i + Len(log[i].rest) + 1 <= Len(Presentations)
        /\ Presentations[i + Len(log[i].rest) + 1] # log[i].card

\* C8: cards are judged in queue order: after any answer the cards then queued
\* are presented next, each once and in that order, and a failed card comes
\* again only after all of them.
C8_RoundRobin ==
    \A i \in 1..Len(log) :
        /\ \A k \in 1..Len(log[i].rest) :
              i + k <= Len(Presentations) => Presentations[i + k] = log[i].rest[k]
        /\ log[i].result = "Fail" =>
              /\ \A k \in 1..Len(log[i].rest) :
                    i + k <= Len(Presentations) =>
                        Presentations[i + k].path # log[i].card.path
              /\ i + Len(log[i].rest) + 1 <= Len(Presentations) =>
                    Presentations[i + Len(log[i].rest) + 1].path = log[i].card.path

C8_Witness ==
    \E i \in 1..Len(log) :
        /\ log[i].result = "Fail"
        /\ Len(log[i].rest) >= 2
        /\ i + Len(log[i].rest) + 1 <= Len(Presentations)

\* C9: the count handed to the callback is the queue depth with the card being
\* judged, equals the initial number of cards less the cards output, is between
\* 1 and the initial number, and does not drop after a Fail.
C9_RemainingCount ==
    pc = "judging" =>
        /\ n_remaining = Len(queue) + 1
        /\ n_remaining = Len(initial) - Len(output)
        /\ n_remaining >= 1
        /\ n_remaining <= Len(initial)
        /\ (Len(log) > 0 /\ Last(log).result = "Fail") =>
              n_remaining >= Last(log).n_remaining

\* C10: the queue Hand::from builds holds, once each, exactly the cards of the
\* pool that carry the deck's name and are due at that instant.
C10_QueueIsDueCardsOfDeck ==
    InSession =>
        LET pool == {cards[p] : p \in DOMAIN cards}
            wanted == {c \in pool : /\ \E k \in 1..Len(c.decks) : c.decks[k] = deck_name
                                    /\ c.revision_settings.due <= dealt_at}
        IN  /\ \A c \in wanted : Cardinality({i \in 1..Len(initial) : initial[i] = c}) = 1
            /\ \A i \in 1..Len(initial) : initial[i] \in wanted
            /\ Len(initial) = Cardinality(wanted)

C10_Witness ==
    /\ InSession
    /\ Len(initial) >= 1
    /\ \E p \in DOMAIN cards :
          /\ \E k \in 1..Len(cards[p].decks) : cards[p].decks[k] = deck_name
          /\ cards[p].revision_settings.due > dealt_at
    /\ \E p \in DOMAIN cards :
          /\ \A k \in 1..Len(cards[p].decks) : cards[p].decks[k] # deck_name
          /\ cards[p].revision_settings.due <= dealt_at

(* ------------------- State::deal over any snapshot --------------------- *)
\* the card_paths a deck can be built with: any paths, here in ascending order
ListedPaths ==
    {CHOOSE s \in Orderings(S) : \A i, j \in 1..Len(s) : i < j => s[i] < s[j] :
        S \in SUBSET Paths}

\* State::new builds a snapshot from any cards and any decks: the deck map
\* holds any of the deck names, whether or not a stored card carries the name,
\* and a deck lists any paths, whether or not those cards carry its name
DealInit ==
    /\ \E kind \in [Paths -> 1..Len(StoredCards)] :
          /\ \A p, q \in Paths : p < q => kind[p] <= kind[q]
          /\ cards = [p \in Paths |-> [StoredCards[kind[p]] EXCEPT !.path = p]]
    /\ \E names \in SUBSET DeckNames : \E listed \in [names -> ListedPaths] :
          decks = [n \in names |-> DeckNew(n, listed[n], StoredCoefficients(n))]
    /\ card_parsing_config = ParsingConfigDefault
    /\ now = 0
    /\ pc = "idle"
    /\ deck_name = "none"
    /\ error = "None"
    /\ queue = <<>>
    /\ interval_coefficients = IntervalCoefficientsDefault
    /\ card = NoCard
    /\ n_remaining = 0
    /\ output = <<>>
    /\ initial = <<>>
    /\ dealt_at = 0
    /\ log = <<>>

DealNext ==
    \/ \E name \in DeckNames : Deal(name)
    \/ Tick

DealSpec == DealInit /\ [][DealNext]_vars

\* State::deal has returned
Dealt == pc \in {"error", "loop"}

\* the stored cards that carry the dealt name, and those of them due at the deal
Carrying == {p \in DOMAIN cards : \E i \in 1..Len(cards[p].decks) : cards[p].decks[i] = deck_name}

CarryingAndDue == {p \in Carrying : cards[p].revision_settings.due <= dealt_at}

\* C11: Hand::from returns EmptyDeck exactly when no card of the pool carries
\* the deck's name, NoDueCards exactly when some card carries it and none of
\* those is due, and a hand otherwise; each outcome is a returned value.
C11_HandFromOutcome ==
    (Dealt /\ deck_name \in DOMAIN decks) =>
        /\ error \in {"EmptyDeck", "NoDueCards", "None"}
        /\ error = "EmptyDeck" <=> Carrying = {}
        /\ error = "NoDueCards" <=> (Carrying # {} /\ CarryingAndDue = {})
        /\ error = "None" <=> CarryingAndDue # {}
        /\ pc = "loop" <=> error = "None"
        /\ pc = "loop" => {queue[i].path : i \in 1..Len(queue)} = CarryingAndDue

\* the deck is in the map, no card carries its name, and other cards are due
C11_Witness ==
    /\ pc = "error"
    /\ error = "EmptyDeck"
    /\ deck_name \in DOMAIN decks
    /\ \E p \in DOMAIN cards : cards[p].revision_settings.due <= dealt_at

\* C12: State::deal returns MissingDeck exactly when the name is not in the deck
\* map, whether or not stored cards carry the name; otherwise it returns what
\* Hand::from returns over all stored cards, with the deck's coefficients.
C12_DealOutcome ==
    Dealt =>
        /\ error = "MissingDeck" <=> deck_name \notin DOMAIN decks
        /\ deck_name \notin DOMAIN decks => pc = "error"
        /\ deck_name \in DOMAIN decks =>
              /\ error = HandFromError(deck_name, {cards[p] : p \in DOMAIN cards}, dealt_at)
              /\ pc = "loop" =>
                    /\ interval_coefficients = decks[deck_name].interval_coefficients
                    /\ {queue[i] : i \in 1..Len(queue)} = {cards[p] : p \in CarryingAndDue}

\* the name is missing from the deck map although a stored card carries it and is due
C12_Witness ==
    /\ pc = "error"
    /\ error = "MissingDeck"
    /\ CarryingAndDue # {}

(* --------------- Card::transform over any scheduling state ------------- *)
\* the scheduling states a card can be loaded with, the coefficients a deck
\* can be given (IntervalCoefficients::new takes any three numbers)
ReviewDues ==
    {-4 * HoursInDay * SecondsInHour, -12 * SecondsInHour, -(SecondsInHour \div 2),
     HoursInDay * SecondsInHour}
ReviewIntervals == {0, 1000, 10000}
ReviewFactors == {0, 1200, 1300, 2000}
ReviewCoefficients ==
    {IntervalCoefficientsNew(pass_coef, easy_coef, fail_coef) :
        pass_coef \in {0, 1000, 2000}, easy_coef \in {1300, 2000},
        fail_coef \in {-500, 0, 3000}}

TransformInit ==
    /\ \E due \in ReviewDues, interval \in ReviewIntervals, factor \in ReviewFactors :
          card = CardNew(1, <<"d1">>, "q", "a", RevisionSettingsNew(due, interval, factor))
    /\ interval_coefficients \in ReviewCoefficients
    /\ cards = [p \in {1} |-> card]
    /\ decks = [n \in {"d1"} |-> DeckNew(n, <<1>>, interval_coefficients)]
    /\ card_parsing_config = ParsingConfigDefault
    /\ now = 0
    /\ pc = "reviewing"
    /\ deck_name = "d1"
    /\ error = "None"
    /\ queue = <<>>
    /\ n_remaining = 0
    /\ output = <<>>
    /\ initial = <<>>
    /\ dealt_at = 0
    /\ log = <<>>

\* Card::transform with a score: the log keeps the card as it was, the score,
\* the instant and the candidates calculate_possible_intervals gave
Review(score) ==
    /\ pc = "reviewing"
    /\ Len(log) < MaxReviews
    /\ card.revision_settings.interval <= MaxInterval
    /\ card' = CardTransform(card, score, interval_coefficients, now)
    /\ log' = Append(log,
                 [card |-> card, result |-> score, at |-> now,
                  possible |-> CalculatePossibleIntervals(card.revision_settings,
                                                          interval_coefficients, now)])
    /\ UNCHANGED <<card_parsing_config, cards, decks, now, pc, deck_name, error, queue,
                   interval_coefficients, n_remaining, output, initial, dealt_at>>

\* half a day passes before the next review
Wait ==
    /\ pc = "reviewing"
    /\ now < MaxWaits * 12 * SecondsInHour
    /\ now' = now + 12 * SecondsInHour
    /\ UNCHANGED <<card_parsing_config, cards, decks, pc, deck_name, error, queue, interval_coefficients,
                   card, n_remaining, output, initial, dealt_at, log>>

TransformNext ==
    \/ \E score \in Scores : Review(score)
    \/ Wait

TransformSpec == TransformInit /\ [][TransformNext]_vars

\* the scheduling state before and after the i-th review
Before(i) == log[i].card.revision_settings

After(i) == IF i < Len(log) THEN log[i + 1].card.revision_settings
            ELSE card.revision_settings

Reviews == IF pc = "reviewing" THEN 1..Len(log) ELSE {}

\* C13 as stated: whatever the score, a review of a card whose memorisation
\* factor is below 1300 leaves the factor at exactly 1300.
C13_FloorIsExact ==
    \A i \in Reviews :
        Before(i).memorisation_factor < 1300 => After(i).memorisation_factor = 1300

\* C13 amended: a review of a card whose memorisation factor is below 1300
\* leaves the factor at 1300 or more; at exactly 1300 unless the score is Easy
\* and the factor was above 1150, when it is the old factor plus 150.
C13_FloorUnlessEasyLifts ==
    \A i \in Reviews :
        Before(i).memorisation_factor < 1300 =>
            /\ After(i).memorisation_factor >= 1300
            /\ (log[i].result # "Easy" \/ Before(i).memorisation_factor <= 1150) =>
                  After(i).memorisation_factor = 1300
            /\ (log[i].result = "Easy" /\ Before(i).memorisation_factor > 1150) =>
                  After(i).memorisation_factor = Before(i).memorisation_factor + 150

\* an Easy review of a card whose factor was between 1150 and 1300
C13_Witness ==
    \E i \in Reviews :
        /\ log[i].result = "Easy"
        /\ Before(i).memorisation_factor > 1150
        /\ Before(i).memorisation_factor < 1300

\* the change of the memorisation factor each score asks for
FactorDelta(score) ==
    CASE score = "Fail" -> -200
      [] score = "Hard" -> -150
      [] score = "Pass" -> 0
      [] score = "Easy" -> 150

\* C14: every review sets the memorisation factor to the larger of 1300 and the
\* old factor plus the score's delta, so a card reviewed at least once has a
\* factor of 1300 or more.
C14_FactorUpdate ==
    /\ \A i \in Reviews :
          LET sum == Before(i).memorisation_factor + FactorDelta(log[i].result)
          IN  After(i).memorisation_factor = IF sum > 1300 THEN sum ELSE 1300
    /\ (pc = "reviewing" /\ Len(log) >= 1) => card.revision_settings.memorisation_factor >= 1300

\* two reviews, the first lowering a factor above the floor, the second a Hard
C14_Witness ==
    /\ pc = "reviewing"
    /\ Len(log) = 2
    /\ Before(1).memorisation_factor > 1300
    /\ log[1].result = "Fail"
    /\ log[2].result = "Hard"

\* C15: the candidates of every review are laddered: hard is at least the
\* interval plus one day, pass at least hard plus one, easy at least pass plus
\* one; the fail candidate is the interval times fail_coef, wherever that falls.
C15_IntervalLadder ==
    \A i \in Reviews :
        /\ log[i].possible.Hard >= Before(i).interval + Scale
        /\ log[i].possible.Pass >= log[i].possible.Hard + Scale
        /\ log[i].possible.Easy >= log[i].possible.Pass + Scale
        /\ log[i].possible.Fail =
              TruncDiv(Before(i).interval * interval_coefficients.fail_coef, Scale)

\* one review whose fail candidate is below hard, another whose fail candidate
\* is above easy
C15_Witness ==
    /\ \E i \in Reviews : log[i].possible.Fail < log[i].possible.Hard
    /\ \E i \in Reviews : log[i].possible.Fail > log[i].possible.Easy

\* C16: a card whose interval starts at zero or more has an interval of zero or
\* more after any reviews, whatever the scores and the deck's coefficients.
C16_IntervalNeverNegative ==
    pc = "reviewing" => card.revision_settings.interval >= 0

\* the review of the documented example: interval 1, factor 2000, four days
\* overdue, coefficients pass 1, easy 2, fail 0
IsExample(i) ==
    /\ Before(i).interval = 1000
    /\ Before(i).memorisation_factor = 2000
    /\ log[i].at - Before(i).due = 4 * 86400
    /\ interval_coefficients = [pass_coef |-> 1000, easy_coef |-> 2000, fail_coef |-> 0]

\* the four candidates of the i-th review by their formulas, in thousandths of
\* a day (overdue is the whole hours since the due date, as days)
Candidates(i) ==
    LET interval == Before(i).interval
        factor == Before(i).memorisation_factor
        overdue == TruncDiv(TruncDiv(log[i].at - Before(i).due, 3600) * 1000, 24)
        pass_coef == interval_coefficients.pass_coef
        easy_coef == interval_coefficients.easy_coef
        fail_coef == interval_coefficients.fail_coef
        Times(x, y) == TruncDiv(x * y, 1000)
        fail == Times(interval, fail_coef)
        hard == Max(interval + 1000,
                    Times(Times(1200, interval + Times(250, overdue)), pass_coef))
        pass == Max(hard + 1000,
                    Times(Times(interval + Times(500, overdue), factor), pass_coef))
        easy == Max(pass + 1000,
                    Times(Times(Times(interval + overdue, factor), pass_coef), easy_coef))
    IN  [Fail |-> fail, Hard |-> hard, Pass |-> pass, Easy |-> easy]

\* C17: the candidates are those of the four formulas and the new interval is
\* the candidate of the score given; in the documented
\* example the candidates are 0, 2.4, 6 and 20 days and the new factors 1800,
\* 1850, 2000 and 2150 for Fail, Hard, Pass and Easy.
C17_SelectionAndExample ==
    \A i \in Reviews :
        /\ log[i].possible = Candidates(i)
        /\ After(i).interval = Candidates(i)[log[i].result]
        /\ IsExample(i) =>
              /\ log[i].possible = [Fail |-> 0, Hard |-> 2400, Pass |-> 6000, Easy |-> 20000]
              /\ After(i).memorisation_factor =
                    CASE log[i].result = "Fail" -> 1800
                      [] log[i].result = "Hard" -> 1850
                      [] log[i].result = "Pass" -> 2000
                      [] log[i].result = "Easy" -> 2150

\* the documented example reviewed Hard
C17_Witness ==
    \E i \in Reviews : IsExample(i) /\ log[i].result = "Hard"

\* whole seconds in an interval in thousandths of a day
SecondsOf(interval) == TruncDiv(864 * interval, 10)

\* C18: the new due date is the previous due date plus the whole seconds of the
\* new interval, not the instant of the review plus them; a Fail under
\* fail_coef 0 leaves the due date as it was.
C18_DueFromPreviousDue ==
    \A i \in Reviews :
        /\ After(i).due = Before(i).due + SecondsOf(After(i).interval)
        /\ log[i].at # Before(i).due => After(i).due # log[i].at + SecondsOf(After(i).interval)
        /\ (log[i].result = "Fail" /\ interval_coefficients.fail_coef = 0) =>
              After(i).due = Before(i).due

\* a late Fail under fail_coef 0 of a card with a positive interval, then a
\* review that gives a positive interval
C18_Witness ==
    /\ pc = "reviewing"
    /\ Len(log) = 2
    /\ interval_coefficients.fail_coef = 0
    /\ log[1].result = "Fail"
    /\ Before(1).interval > 0
    /\ log[1].at > Before(1).due
    /\ log[2].at > Before(2).due
    /\ After(2).interval > 0

(* ------------------ State::with_merged_cards / _decks ------------------ *)
\* UID: a card's uid is its path, a deck's its name
Uid(item) == IF "path" \in DOMAIN item THEN item.path ELSE item.name

\* mutant: the incoming card keeps its own scheduling state
CardMerge_KeepsIncoming(self, other) == self

\* mutant: a card whose question changed starts over with its own scheduling state
CardMerge_ResetsChanged(self, other) ==
    IF self.question = other.question
    THEN WithRevisionSettings(self, other.revision_settings)
    ELSE self

\* Merge for Card: the incoming card with the stored card's revision settings
CardMerge(self, other) == WithRevisionSettings(self, other.revision_settings)

WithIntervalCoefficients(d, coefficients) ==
    [d EXCEPT !.interval_coefficients = coefficients]

\* mutant: the stored deck's card_paths are kept as well
DeckMerge_KeepsStoredPaths(self, other) == [other EXCEPT !.name = self.name]

\* mutant: the incoming card_paths are added to the stored ones
DeckMerge_AppendsPaths(self, other) ==
    [self EXCEPT !.card_paths = other.card_paths \o self.card_paths,
                 !.interval_coefficients = other.interval_coefficients]

\* Merge for Deck: the incoming deck with the stored deck's coefficients
DeckMerge(self, other) == WithIntervalCoefficients(self, other.interval_coefficients)

Merge(self, other) ==
    IF "path" \in DOMAIN self THEN CardMerge(self, other) ELSE DeckMerge(self, other)

\* HashMap::extend: every item is put under its uid, in order
RECURSIVE OverrideMatchingValues(_, _)
OverrideMatchingValues(map, items) ==
    IF items = <<>> THEN map
    ELSE LET i == Head(items)
             m == [uid \in DOMAIN map \cup {Uid(i)} |->
                      IF uid = Uid(i) THEN i ELSE map[uid]]
         IN  OverrideMatchingValues(m, Tail(items))

\* mutant: the merged items replace the map
MergeMatchingValues_DropsUnmatched(map, items) ==
    LET overriding == [k \in 1..Len(items) |->
                          IF Uid(items[k]) \in DOMAIN map
                          THEN Merge(items[k], map[Uid(items[k])])
                          ELSE items[k]]
    IN  OverrideMatchingValues(<<>>, overriding)

MergeMatchingValues(map, items) ==
    LET overriding == [k \in 1..Len(items) |->
                          IF Uid(items[k]) \in DOMAIN map
                          THEN Merge(items[k], map[Uid(items[k])])
                          ELSE items[k]]
    IN  OverrideMatchingValues(map, overriding)

\* a freshly extracted card: its content as parsed, default revision settings
ExtractedContents == {<<"d1">>, <<"d2">>} \X {"q", "q2"}

ExtractedCards ==
    {ValuesFrom([p \in uids |->
                    CardNew(p, content[p][1], content[p][2], "a", RevisionSettingsDefault(0))],
                1) :
        uids \in SUBSET Paths, content \in [Paths -> ExtractedContents]}

\* coefficients an incoming deck can carry
TunedCoefficients == IntervalCoefficientsNew(31000, 32000, 33000)

IncomingDecks ==
    {<<>>} \cup
    {<<DeckNew(n, <<1>>, c)>> : n \in DeckNames, c \in {IntervalCoefficientsDefault, TunedCoefficients}} \cup
    {<<DeckNew("d1", <<1>>, c), DeckNew("d2", <<2>>, c)>> :
        c \in {IntervalCoefficientsDefault, TunedCoefficients}}

\* any snapshot: each path stored or not, any of the deck names in the deck map
MergeInit ==
    /\ \E uids \in SUBSET Paths, kind \in [Paths -> 1..Len(StoredCards)] :
          cards = [p \in uids |-> [StoredCards[kind[p]] EXCEPT !.path = p]]
    /\ \E names \in SUBSET DeckNames :
          decks = [n \in names |->
                     DeckNew(n, CardPaths(ValuesFrom(cards, 1), n), StoredCoefficients(n))]
    /\ card_parsing_config \in {ParsingConfigDefault, ParsingConfigNew("///")}
    /\ now = 0
    /\ pc = "merge"
    /\ deck_name = "none"
    /\ error = "None"
    /\ queue = <<>>
    /\ interval_coefficients = IntervalCoefficientsDefault
    /\ card = NoCard
    /\ n_remaining = 0
    /\ output = <<>>
    /\ initial = <<>>
    /\ dealt_at = 0
    /\ log = <<>>

\* State::with_merged_cards; the log keeps the state it was called on and the items
WithMergedCards(items) ==
    /\ pc = "merge"
    /\ cards' = MergeMatchingValues(cards, items)
    /\ pc' = "cards_merged"
    /\ log' = <<[cards |-> cards, decks |-> decks,
                 card_parsing_config |-> card_parsing_config, items |-> items]>>
    /\ UNCHANGED <<card_parsing_config, decks, now, deck_name, error, queue,
                   interval_coefficients, card, n_remaining, output, initial, dealt_at>>

\* State::with_merged_decks
WithMergedDecks(items) ==
    /\ pc = "merge"
    /\ decks' = MergeMatchingValues(decks, items)
    /\ pc' = "decks_merged"
    /\ log' = <<[cards |-> cards, decks |-> decks,
                 card_parsing_config |-> card_parsing_config, items |-> items]>>
    /\ UNCHANGED <<card_parsing_config, cards, now, deck_name, error, queue,
                   interval_coefficients, card, n_remaining, output, initial, dealt_at>>

MergeNext ==
    \/ \E items \in ExtractedCards : WithMergedCards(items)
    \/ \E items \in IncomingDecks : WithMergedDecks(items)

MergeSpec == MergeInit /\ [][MergeNext]_vars

\* the state a merge was called on, and the items it was given
Stored == log[1]

Incoming == {Stored.items[k] : k \in 1..Len(Stored.items)}

\* C19: after with_merged_cards, the entry of an incoming card whose uid was
\* stored has the incoming card's path, decks, question and answer and the
\* whole scheduling state of the card stored before.
C19_MergeKeepsScheduling ==
    pc = "cards_merged" =>
        \A i \in Incoming :
            i.path \in DOMAIN Stored.cards =>
                /\ i.path \in DOMAIN cards
                /\ cards[i.path].path = i.path
                /\ cards[i.path].decks = i.decks
                /\ cards[i.path].question = i.question
                /\ cards[i.path].answer = i.answer
                /\ cards[i.path].revision_settings = Stored.cards[i.path].revision_settings

\* an incoming card whose content and scheduling state both differ from the
\* stored card of its uid
C19_Witness ==
    /\ pc = "cards_merged"
    /\ \E i \in Incoming :
          /\ i.path \in DOMAIN Stored.cards
          /\ i.question # Stored.cards[i.path].question
          /\ i.decks # Stored.cards[i.path].decks
          /\ i.revision_settings # Stored.cards[i.path].revision_settings

\* the merged map holds the unmatched incoming items as given, the stored
\* entries no incoming item names as they were, and no other uid
MergeKeepsOthers(before, after) ==
    /\ DOMAIN after = DOMAIN before \cup {Uid(i) : i \in Incoming}
    /\ \A i \in Incoming : Uid(i) \notin DOMAIN before => after[Uid(i)] = i
    /\ \A uid \in DOMAIN before :
          (\A i \in Incoming : Uid(i) # uid) => after[uid] = before[uid]

\* C20: a merge inserts an incoming item with no stored match unchanged and
\* leaves every stored entry absent from the incoming list unchanged;
\* with_merged_cards leaves the decks and the parsing config as they were,
\* with_merged_decks the cards and the parsing config.
C20_MergeKeepsOthers ==
    /\ pc = "cards_merged" =>
          /\ MergeKeepsOthers(Stored.cards, cards)
          /\ decks = Stored.decks
          /\ card_parsing_config = Stored.card_parsing_config
    /\ pc = "decks_merged" =>
          /\ MergeKeepsOthers(Stored.decks, decks)
          /\ cards = Stored.cards
          /\ card_parsing_config = Stored.card_parsing_config

\* a merge of cards given a new uid and a stored one, with a third card and a
\* deck stored besides, under a parsing config that is not the default
C20_Witness ==
    /\ pc = "cards_merged"
    /\ \E i \in Incoming : i.path \notin DOMAIN Stored.cards
    /\ \E i \in Incoming : i.path \in DOMAIN Stored.cards
    /\ \E uid \in DOMAIN Stored.cards : \A i \in Incoming : i.path # uid
    /\ DOMAIN Stored.decks # {}
    /\ card_parsing_config # ParsingConfigDefault

(* ----------------- State::with_overriden_cards / _decks ---------------- *)
\* a revised card: any content, a scheduling state a review has given
RevisedRevisionSettings == RevisionSettingsNew(2 * HoursInDay * SecondsInHour, 6000, 1850)

RevisedCards ==
    {ValuesFrom([p \in uids |->
                    IF variant[p] = 1
                    THEN CardNew(p, <<"d1">>, "q", "a", RevisedRevisionSettings)
                    ELSE CardNew(p, <<"d2">>, "q2", "a", RevisionSettingsDefault(0))],
                1) :
        uids \in SUBSET Paths, variant \in [Paths -> {1, 2}]}

\* coefficients a user gives a deck through with_overriden_decks
OverridingCoefficients == IntervalCoefficientsNew(8000, 9000, 10000)

OverridingDecks ==
    {<<>>, <<DeckNew("d1", <<>>, OverridingCoefficients)>>,
     <<DeckNew("d2", <<>>, OverridingCoefficients)>>,
     <<DeckNew("d1", <<>>, OverridingCoefficients),
       DeckNew("d2", <<>>, OverridingCoefficients)>>}

\* mutant: a supplied card whose uid is stored is merged, not put in its place
WithOverridenCards_Merges(items) ==
    /\ pc = "merge"
    /\ log = <<>>
    /\ cards' = MergeMatchingValues(cards, items)
    /\ log' = <<[op |-> "cards", cards |-> cards, decks |-> decks,
                 card_parsing_config |-> card_parsing_config, items |-> items]>>
    /\ UNCHANGED <<card_parsing_config, decks, now, pc, deck_name, error, queue,
                   interval_coefficients, card, n_remaining, output, initial, dealt_at>>

\* State::with_overriden_cards; the log keeps the state it was called on and the items
WithOverridenCards(items) ==
    /\ pc = "merge"
    /\ log = <<>>
    /\ cards' = OverrideMatchingValues(cards, items)
    /\ log' = <<[op |-> "cards", cards |-> cards, decks |-> decks,
                 card_parsing_config |-> card_parsing_config, items |-> items]>>
    /\ UNCHANGED <<card_parsing_config, decks, now, pc, deck_name, error, queue,
                   interval_coefficients, card, n_remaining, output, initial, dealt_at>>

\* State::with_overriden_decks
WithOverridenDecks(items) ==
    /\ pc = "merge"
    /\ log = <<>>
    /\ decks' = OverrideMatchingValues(decks, items)
    /\ log' = <<[op |-> "decks", cards |-> cards, decks |-> decks,
                 card_parsing_config |-> card_parsing_config, items |-> items]>>
    /\ UNCHANGED <<card_parsing_config, cards, now, pc, deck_name, error, queue,
                   interval_coefficients, card, n_remaining, output, initial, dealt_at>>

\* a snapshot is overridden at most once and then reconciled with incoming decks
StoreNext ==
    \/ \E items \in RevisedCards : WithOverridenCards(items)
    \/ \E items \in OverridingDecks : WithOverridenDecks(items)
    \/ \E items \in IncomingDecks : WithMergedDecks(items)

StoreSpec == MergeInit /\ [][StoreNext]_vars

\* an override has returned
Overriden(op) == pc = "merge" /\ log # <<>> /\ log[1].op = op

\* the map after an override: each supplied item under its uid, the other
\* entries as before, no other uid
IsOverride(before, after) ==
    /\ DOMAIN after = DOMAIN before \cup {Uid(i) : i \in Incoming}
    /\ \A i \in Incoming : after[Uid(i)] = i
    /\ \A uid \in DOMAIN before :
          (\A i \in Incoming : Uid(i) # uid) => after[uid] = before[uid]

\* C21: after with_overriden_cards the entry of each supplied uid is the
\* supplied card, scheduling state included, the other entries are unchanged,
\* the keys are the old and the supplied uids, and decks and parsing config are
\* unchanged; with_overriden_decks does the same to the decks, by name.
C21_OverrideReplacesOrInserts ==
    /\ Overriden("cards") =>
          /\ IsOverride(Stored.cards, cards)
          /\ decks = Stored.decks
          /\ card_parsing_config = Stored.card_parsing_config
    /\ Overriden("decks") =>
          /\ IsOverride(Stored.decks, decks)
          /\ cards = Stored.cards
          /\ card_parsing_config = Stored.card_parsing_config

\* cards were supplied for a stored uid with another scheduling state and for
\* a new uid, and a third card is stored
C21_Witness ==
    /\ Overriden("cards")
    /\ \E i \in Incoming :
          /\ i.path \in DOMAIN Stored.cards
          /\ i.revision_settings # Stored.cards[i.path].revision_settings
          /\ i.decks # Stored.cards[i.path].decks
    /\ \E i \in Incoming : i.path \notin DOMAIN Stored.cards
    /\ \E uid \in DOMAIN Stored.cards : \A i \in Incoming : i.path # uid
    /\ DOMAIN decks # {}

\* C22: a deck merged into a snapshot that holds a deck of its name is stored
\* with the incoming deck's card_paths and the stored deck's coefficients, so
\* coefficients given through with_overriden_decks are there after the merge.
C22_MergedDeck ==
    pc = "decks_merged" =>
        \A i \in Incoming :
            i.name \in DOMAIN Stored.decks =>
                /\ decks[i.name].name = i.name
                /\ decks[i.name].card_paths = i.card_paths
                /\ decks[i.name].interval_coefficients =
                      Stored.decks[i.name].interval_coefficients

\* a deck overridden with the user's coefficients has been merged with an
\* incoming deck of other card_paths and other coefficients
C22_Witness ==
    /\ pc = "decks_merged"
    /\ \E i \in Incoming :
          /\ i.name \in DOMAIN Stored.decks
          /\ Stored.decks[i.name].interval_coefficients = OverridingCoefficients
          /\ i.interval_coefficients # OverridingCoefficients
          /\ i.card_paths # Stored.decks[i.name].card_paths
          /\ decks[i.name].interval_coefficients = OverridingCoefficients

(* --------------------------- deck::many_from_cards --------------------- *)
\* no deal has been made and no session run
NoSession ==
    /\ now = 0
    /\ deck_name = "none"
    /\ error = "None"
    /\ queue = <<>>
    /\ interval_coefficients = IntervalCoefficientsDefault
    /\ card = NoCard
    /\ n_remaining = 0
    /\ output = <<>>
    /\ initial = <<>>
    /\ dealt_at = 0
    /\ log = <<>>

\* the deck lists the parser can give a card: parse_decks splits the tag line
\* at the delimiter and drops empty entries, nothing else
ParsedDecks == {<<>>, <<"d1">>, <<"d2">>, <<"d1", "d2">>, <<"d1", "d1">>}

\* lists of loaded cards with distinct paths, in path order
LoadableCards ==
    {ValuesFrom([p \in uids |->
                    CardNew(p, card_decks[p], "q", "a", RevisionSettingsDefault(0))],
                1) :
        uids \in SUBSET Paths, card_decks \in [Paths -> ParsedDecks]}

DeriveInit ==
    /\ card_parsing_config = ParsingConfigDefault
    /\ cards = <<>>
    /\ decks = <<>>
    /\ pc = "derive"
    /\ NoSession

\* many_from_cards is called with a list of cards; the log keeps the list and
\* the decks returned
DeriveDecks(cs) ==
    /\ pc = "derive"
    /\ pc' = "derived"
    /\ log' = <<[cards |-> cs, decks |-> ManyFromCards(cs)]>>
    /\ UNCHANGED <<card_parsing_config, cards, decks, now, deck_name, error, queue,
                   interval_coefficients, card, n_remaining, output, initial, dealt_at>>

DeriveNext == \E cs \in LoadableCards : DeriveDecks(cs)

DeriveSpec == DeriveInit /\ [][DeriveNext]_vars

\* the names in the deck lists of the given cards, the given cards that list a name
NamesGiven == UNION {{c.decks[j] : j \in 1..Len(c.decks)} :
                        c \in {log[1].cards[i] : i \in 1..Len(log[1].cards)}}

PathsListing(name) ==
    {log[1].cards[i].path : i \in {k \in 1..Len(log[1].cards) :
                                      \E j \in 1..Len(log[1].cards[k].decks) :
                                          log[1].cards[k].decks[j] = name}}

StateDefault == [card_parsing_config |-> ParsingConfigDefault, cards |-> <<>>, decks |-> <<>>]

\* a parsing config whose decks pattern does not compile as a regex
ParsingConfigBroken == [ParsingConfigDefault EXCEPT !.decks_pattern = "("]

\* Parser::from: Regex::new fails on a pattern that does not compile
ParserFromFails(config) == config.decks_pattern = "("

\* what the state file can hold: nothing readable, text that is not a State,
\* or a serialised State
StateFiles ==
    {[content |-> c, state |-> StateDefault] : c \in {"unreadable", "unparsable"}} \cup
    {[content |-> "state",
      state |-> [card_parsing_config |-> config,
                 cards |-> [p \in uids |-> [StoredCards[1] EXCEPT !.path = p]],
                 decks |-> [n \in IF uids = {} THEN {} ELSE {"d1"} |->
                              DeckNew(n, <<>>, StoredCoefficients(n))]]] :
        uids \in SUBSET Paths,
        config \in {ParsingConfigDefault, ParsingConfigNew("///"), ParsingConfigBroken}}

\* the markdown files of the notes directory, in path order: each holds a card
\* or text the parser does not match
NoteFiles ==
    {ValuesFrom([p \in uids |-> [path |-> p, content |-> content[p]]], 1) :
        uids \in SUBSET Paths, content \in [Paths -> {"card", "other"}]}

ReadInit ==
    /\ card_parsing_config = ParsingConfigDefault
    /\ cards = <<>>
    /\ decks = <<>>
    /\ pc = "read"
    /\ NoSession

\* let state = Self::from_file(file_handle).unwrap_or_default(): from_file
\* fails when the file cannot be read or parsed, and the default takes its place
FromFile(file) ==
    /\ pc = "read"
    /\ LET result == IF file.content = "state" THEN "Ok" ELSE "Err"
           state == IF result = "Ok" THEN file.state ELSE StateDefault
       IN  /\ card_parsing_config' = state.card_parsing_config
           /\ cards' = state.cards
           /\ decks' = state.decks
           /\ log' = <<[file |-> file.content, from_file |-> result]>>
    /\ pc' = "parser"
    /\ UNCHANGED <<now, deck_name, error, queue, interval_coefficients, card,
                   n_remaining, output, initial, dealt_at>>

\* let parser = Parser::from(&state.card_parsing_config)?
ParserFrom ==
    /\ pc = "parser"
    /\ IF ParserFromFails(card_parsing_config)
       THEN pc' = "error" /\ error' = "ParserError"
       ELSE pc' = "load" /\ error' = error
    /\ UNCHANGED <<card_parsing_config, cards, decks, now, deck_name, queue,
                   interval_coefficients, card, n_remaining, output, initial,
                   dealt_at, log>>

\* card::try_load_many: the body is `Err("".to_string())`, whatever the files
TryLoadMany(files) == [ok |-> FALSE, succeeded |-> <<>>, failed |-> <<>>]

\* let loaded_cards = card::try_load_many(notes_dirpath, &parser)?
LoadCards(files) ==
    /\ pc = "load"
    /\ log' = Append(log, [files |-> files, loaded_cards |-> TryLoadMany(files)])
    /\ IF TryLoadMany(files).ok
       THEN pc' = "merge" /\ error' = error
       ELSE pc' = "error" /\ error' = "LoadError"
    /\ UNCHANGED <<card_parsing_config, cards, decks, now, deck_name, queue,
                   interval_coefficients, card, n_remaining, output, initial,
                   dealt_at>>

ReadNext ==
    \/ \E file \in StateFiles : FromFile(file)
    \/ ParserFrom
    \/ \E files \in NoteFiles : LoadCards(files)

ReadSpec == ReadInit /\ [][ReadNext]_vars

\* State::read is running or has returned
Reading == pc \in {"parser", "load", "error"}

\* C24: when the state file cannot be read or cannot be deserialised,
\* State::read stops with that error and does not go on with a default snapshot.
C24_ReadStopsOnBadFile ==
    (Reading /\ log[1].from_file = "Err") => pc \notin {"parser", "load"}

\* C25: try_load_many returns the cards of the files that hold a card and lists
\* the files whose extraction failed separately; a failing file does not make
\* the load fail.
C25_FailuresCollected ==
    (Reading /\ Len(log) = 2) =>
        LET files == log[2].files
            good == SelectSeq(files, LAMBDA f : f.content = "card")
            bad == SelectSeq(files, LAMBDA f : f.content # "card")
        IN  /\ log[2].loaded_cards.ok
            /\ [k \in 1..Len(good) |-> log[2].loaded_cards.succeeded[k].path] =
                  [k \in 1..Len(good) |-> good[k].path]
            /\ Len(log[2].loaded_cards.succeeded) = Len(good)
            /\ Len(log[2].loaded_cards.failed) = Len(bad)

(* ------------------- claims about a whole revision session ------------- *)
\* the card of the initial queue with the path
AsDealt(path) == initial[CHOOSE i \in 1..Len(initial) : initial[i].path = path]

\* the moments of the Fail answers given to the path before the j-th answer
FailTimes(path, j) ==
    LET fails == SelectSeq(SubSeq(log, 1, j - 1),
                           LAMBDA e : e.result = "Fail" /\ e.card.path = path)
    IN  [i \in 1..Len(fails) |-> fails[i].at]

\* the Fail transform applied in succession, once per moment
RECURSIVE FailedAt(_, _)
FailedAt(c, times) ==
    IF times = <<>> THEN c
    ELSE FailedAt(CardTransform(c, "Fail", interval_coefficients, Head(times)), Tail(times))

\* the session of the example: one card with interval 1, factor 2000, four
\* days overdue, coefficients (1, 2, 0), answered Fail five times and then Pass
FiveFailsThenPass ==
    /\ InSession
    /\ Len(initial) = 1
    /\ initial[1].revision_settings = OverdueRevisionSettings
    /\ interval_coefficients = IntervalCoefficientsNew(1000, 2000, 0)
    /\ Len(log) = 6
    /\ \A i \in 1..5 : log[i].result = "Fail"
    /\ log[6].result = "Pass"
    /\ \A i \in 1..6 : log[i].at = 0

\* C26: a card answered Fail k times and then Hard, Pass or Easy is output with
\* the state got by applying the Fail transform k times in succession to its
\* state as dealt and then the transform of the last score; five Fails then
\* Pass on the example card give interval 2.6 and factor 1300.
C26_FailsAccumulate ==
    /\ InSession =>
          \A j \in 1..Len(log) :
              log[j].result \in {"Hard", "Pass", "Easy"} =>
                  LET path == log[j].card.path
                      failed == FailedAt(AsDealt(path), FailTimes(path, j))
                  IN  /\ log[j].card = failed
                      /\ \E k \in 1..Len(output) :
                            output[k] = CardTransform(failed, log[j].result,
                                                      interval_coefficients, log[j].at)
    /\ FiveFailsThenPass =>
          /\ Len(output) = 1
          /\ output[1].revision_settings.interval = 2600
          /\ output[1].revision_settings.memorisation_factor = 1300

C26_Witness ==
    /\ FiveFailsThenPass
    /\ Len(FailTimes(initial[1].path, 6)) = MaxFailsAlone
    /\ pc = "done"

\* C27: the output lists the cards in the order in which they were answered
\* Hard, Pass or Easy, and a card in the output is never presented again.
C27_OutputInJudgingOrder ==
    InSession =>
        /\ Len(Judged) <= Len(output)
        /\ \A k \in 1..Len(Judged) :
              output[k] = CardTransform(Judged[k].card, Judged[k].result,
                                        interval_coefficients, Judged[k].at)
        /\ \A j \in 1..Len(Presentations) :
              LET out == IF j <= Len(log) THEN log[j].out ELSE output
              IN  \A k \in 1..Len(out) : \A i \in j..Len(Presentations) :
                      Presentations[i].path # out[k].path
        /\ ~Cancelled =>
              \A k \in 1..Len(output) : Occurrences(queue, output[k].path) = 0

C27_Witness ==
    /\ pc = "done"
    /\ ~Cancelled
    /\ Len(initial) >= 2
    /\ Len(Judged) = Len(initial)
    /\ log[1].result = "Fail"
    /\ output[1].path = initial[2].path
    /\ Last(output).path = initial[1].path

\* C28: the callback is invoked once per presentation: while it has returned
\* only scores, the invocations so far and the cards still queued add up to the
\* initial cards plus the Fail answers, and on return the invocations equal the
\* initial cards plus the Fail answers.
C28_InvocationCount ==
    (InSession /\ OnlyScoresSoFar) =>
        /\ Len(Presentations) + Len(queue) = Len(initial) + NumFails
        /\ pc = "done" => Len(log) = Len(initial) + NumFails

C28_Witness ==
    /\ pc = "done"
    /\ OnlyScoresSoFar
    /\ Len(initial) = NumCards
    /\ NumFails = MaxFails
    /\ Len(log) = NumCards + MaxFails

\* every answer so far was Fail
OnlyFailsSoFar == \A i \in 1..Len(log) : log[i].result = "Fail"

\* C29: as long as a non-empty hand gets only Fail answers the call does not
\* return, nothing enters the output, and the queue has its initial length at
\* every loop head (one less while the popped card is with the callback).
C29_AlwaysFailNeverReturns ==
    (InSession /\ Len(initial) > 0 /\ OnlyFailsSoFar) =>
        /\ pc # "done"
        /\ output = <<>>
        /\ pc = "loop" => Len(queue) = Len(initial)
        /\ pc = "judging" => Len(queue) = Len(initial) - 1 /\ n_remaining = Len(initial)

C29_Witness ==
    /\ pc = "loop"
    /\ Len(initial) > 0
    /\ OnlyFailsSoFar
    /\ NumFails = FailsAllowed
    /\ Len(queue) = Len(initial)

\* a session over decks that share a card: the first card is listed by both
\* decks, the second by d1 only and the others by d2 only; every card is
\* overdue, and d2 was given coefficients of its own
SharedCoefficients(name) ==
    IF name = "d2" THEN IntervalCoefficientsNew(2000, 1300, 500)
    ELSE StoredCoefficients(name)

SharedInit ==
    /\ cards = [p \in Paths |->
                  CardNew(p,
                          IF p = 1 THEN <<"d1", "d2">>
                          ELSE IF p = 2 THEN <<"d1">> ELSE <<"d2">>,
                          "q", "a", OverdueRevisionSettings)]
    /\ decks = [n \in DOMAIN ManyFromCards(cards) |->
                  [ManyFromCards(cards)[n] EXCEPT
                      !.interval_coefficients = SharedCoefficients(n)]]
    /\ card_parsing_config = ParsingConfigDefault
    /\ pc = "idle"
    /\ NoSession

SharedSpec == SharedInit /\ [][Next]_vars

\* the j-th answer, a score, transformed the card with the coefficients
TransformedWith(j, coefficients) ==
    LET t == CardTransform(log[j].card, log[j].result, coefficients, log[j].at)
        next == j + Len(log[j].rest) + 1
    IN  IF log[j].result = "Fail"
        THEN IF next <= Len(Presentations) THEN Presentations[next] = t
             ELSE \E k \in 1..Len(Held) : Held[k] = t
        ELSE \E k \in 1..Len(output) : output[k] = t

\* C30: every transform of a session uses the interval coefficients of the
\* deck the hand was dealt for, whatever other decks the card lists, and the
\* hand's coefficients never change during the session.
C30_OneDecksCoefficients ==
    /\ [](InSession =>
            /\ deck_name \in DOMAIN decks
            /\ interval_coefficients = decks[deck_name].interval_coefficients
            /\ \A j \in 1..Len(log) :
                  log[j].result \in Scores =>
                      TransformedWith(j, decks[deck_name].interval_coefficients))
    /\ [][InSession => interval_coefficients' = interval_coefficients]_vars

\* a card of two decks was scored, and the other deck's coefficients would have
\* given another state
C30_Witness ==
    /\ InSession
    /\ \E j \in 1..Len(log) : \E k \in 1..Len(log[j].card.decks) :
          LET other == log[j].card.decks[k]
          IN  /\ log[j].result \in Scores
              /\ Len(log[j].card.decks) >= 2
              /\ other # deck_name
              /\ decks[other].interval_coefficients # interval_coefficients
              /\ ~TransformedWith(j, decks[other].interval_coefficients)

(* ------------- claims about dealing and storing a session -------------- *)
\* the paths the dealt deck lists in its card_paths
Listed ==
    {decks[deck_name].card_paths[i] : i \in 1..Len(decks[deck_name].card_paths)}

\* the paths of the cards in the hand
InHand == {queue[i].path : i \in 1..Len(queue)}

\* C31: the cards dealt are those that carry the deck's name and are due,
\* whatever the deck's card_paths lists: a carrying card that card_paths omits
\* is dealt when due, a listed card that does not carry the name is not, and
\* the outcome of the deal is the same for every card_paths.
C31_DealtByOwnDeckList ==
    (Dealt /\ deck_name \in DOMAIN decks) =>
        /\ pc = "loop" =>
              \A p \in DOMAIN cards :
                  /\ (p \in CarryingAndDue /\ p \notin Listed) => p \in InHand
                  /\ (p \in Listed /\ p \notin Carrying) => p \notin InHand
                  /\ p \in InHand =>
                        /\ InDeck(cards[p], deck_name)
                        /\ IsDue(cards[p], dealt_at)
        /\ (Carrying = {} /\ Listed # {}) => error = "EmptyDeck"
        /\ (CarryingAndDue # {} /\ Listed = {}) => pc = "loop"

\* a hand holds a card the deck does not list, and leaves out a due card the
\* deck lists
C31_Witness ==
    /\ pc = "loop"
    /\ deck_name \in DOMAIN decks
    /\ \E p \in InHand : p \notin Listed
    /\ \E p \in Listed : p \notin InHand /\ IsDue(cards[p], dealt_at)

(* ------------- a snapshot over reconciliations and write-backs --------- *)
\* a persisted snapshot: any of the paths stored, the decks those cards give,
\* with the coefficients the user gave them
SyncInit ==
    /\ \E uids \in SUBSET Paths :
          cards = [p \in uids |->
                     [StoredCards[IF p < Len(StoredCards) THEN p ELSE Len(StoredCards)]
                         EXCEPT !.path = p]]
    /\ decks = [n \in DOMAIN ManyFromCards(ValuesFrom(cards, 1)) |->
                  [ManyFromCards(ValuesFrom(cards, 1))[n] EXCEPT
                      !.interval_coefficients = StoredCoefficients(n)]]
    /\ card_parsing_config = ParsingConfigDefault
    /\ pc = "stored"
    /\ NoSession

\* the Vec many_from_cards returns, in some order
DecksFrom(cs) ==
    CHOOSE s \in Orderings({ManyFromCards(cs)[n] : n \in DOMAIN ManyFromCards(cs)}) : TRUE

\* the end of State::read: the decks are derived from the loaded cards, the
\* loaded cards are merged and then the derived decks; the log keeps the
\* snapshot before, and the cards loaded
Reconcile(loaded) ==
    /\ pc = "stored"
    /\ Len(log) < MaxSyncs
    /\ cards' = MergeMatchingValues(cards, loaded)
    /\ decks' = MergeMatchingValues(decks, DecksFrom(loaded))
    /\ log' = Append(log, [op |-> "reconcile", cards |-> cards, decks |-> decks,
                           items |-> loaded])
    /\ UNCHANGED <<card_parsing_config, now, pc, deck_name, error, queue,
                   interval_coefficients, card, n_remaining, output, initial, dealt_at>>

\* the lists a session on the deck can return: the due cards that carry the
\* name, each with the transform of a score
SessionOutputs(name) ==
    LET hand == FilterDueCards(FilterCardsInDeck(name, {cards[p] : p \in DOMAIN cards}), now)
    IN  UNION {{[i \in 1..Len(s) |->
                    CardTransform(s[i], score[s[i].path],
                                  decks[name].interval_coefficients, now)] :
                   score \in [Paths -> Scores \ {"Fail"}]} : s \in Orderings(hand)}

\* study: with_overriden_cards is given what the session on a deck returned
WriteBack(name) ==
    /\ pc = "stored"
    /\ Len(log) < MaxSyncs
    /\ name \in DOMAIN decks
    /\ \E revised \in SessionOutputs(name) :
          /\ revised # <<>>
          /\ cards' = OverrideMatchingValues(cards, revised)
          /\ log' = Append(log, [op |-> "write_back", cards |-> cards, decks |-> decks,
                                 items |-> revised])
    /\ UNCHANGED <<card_parsing_config, decks, now, pc, deck_name, error, queue,
                   interval_coefficients, card, n_remaining, output, initial, dealt_at>>

SyncNext ==
    \/ \E loaded \in ExtractedCards : Reconcile(loaded)
    \/ \E name \in DeckNames : WriteBack(name)

SyncSpec == SyncInit /\ [][SyncNext]_vars

\* the snapshot after the i-th operation of the log
SnapshotAfter(i) ==
    IF i = Len(log) THEN [cards |-> cards, decks |-> decks]
    ELSE [cards |-> log[i + 1].cards, decks |-> log[i + 1].decks]

\* the stored paths of a snapshot whose card carries the name
CarriersIn(snapshot, name) ==
    {p \in DOMAIN snapshot.cards : InDeck(snapshot.cards[p], name)}

UidsGiven(i) == {Uid(log[i].items[k]) : k \in 1..Len(log[i].items)}

\* C33: over any reconciliations and write-backs, a reconciliation keeps every
\* stored card's uid and scheduling state, whatever content it brings, and a
\* write-back changes the scheduling state of the returned cards only.
C33_SchedulingOnlyByWriteBack ==
    \A i \in 1..Len(log) : \A uid \in DOMAIN log[i].cards :
        /\ uid \in DOMAIN SnapshotAfter(i).cards
        /\ (log[i].op = "reconcile" \/ uid \notin UidsGiven(i)) =>
              SnapshotAfter(i).cards[uid].revision_settings =
                  log[i].cards[uid].revision_settings

\* a card a session rescheduled is then reconciled with changed content and
\* has the session's scheduling state, which is neither the one it was first
\* stored with nor that of a fresh card
C33_Witness ==
    /\ Len(log) = 2
    /\ log[1].op = "write_back"
    /\ log[2].op = "reconcile"
    /\ \E uid \in UidsGiven(1) \cap UidsGiven(2) :
          /\ cards[uid].question # log[2].cards[uid].question
          /\ cards[uid].decks # log[2].cards[uid].decks
          /\ cards[uid].revision_settings = log[2].cards[uid].revision_settings
          /\ cards[uid].revision_settings # log[1].cards[uid].revision_settings
          /\ cards[uid].revision_settings # RevisionSettingsDefault(0)

\* C38: reconciling a snapshot with the same loaded cards a second time gives
\* the snapshot the first reconciliation gave.
C38_ReconcileIdempotent ==
    \A i \in 2..Len(log) :
        (/\ log[i - 1].op = "reconcile"
         /\ log[i].op = "reconcile"
         /\ log[i].items = log[i - 1].items) =>
            SnapshotAfter(i) = SnapshotAfter(i - 1)

\* the same cards were loaded twice: one stored before with other content and
\* a scheduling state of its own, one new, in a deck with the user's coefficients
C38_Witness ==
    /\ Len(log) = 2
    /\ log[1].op = "reconcile"
    /\ log[2].op = "reconcile"
    /\ log[2].items = log[1].items
    /\ SnapshotAfter(1) # [cards |-> log[1].cards, decks |-> log[1].decks]
    /\ \E uid \in UidsGiven(1) \cap DOMAIN log[1].cards :
          /\ cards[uid].decks # log[1].cards[uid].decks
          /\ cards[uid].revision_settings # RevisionSettingsDefault(0)
    /\ \E uid \in UidsGiven(1) : uid \notin DOMAIN log[1].cards
    /\ \E n \in DOMAIN decks \cap DOMAIN log[1].decks :
          /\ decks[n].interval_coefficients # IntervalCoefficientsDefault
          /\ decks[n].card_paths # log[1].decks[n].card_paths

(* ------------------- study: a session and its write-back --------------- *)
\* mutant: the returned cards are merged, keeping the stored scheduling state
ApplyOutput_Merges ==
    /\ pc = "done"
    /\ cards' = MergeMatchingValues(cards, output)
    /\ pc' = "written"
    /\ UNCHANGED <<card_parsing_config, decks, now, deck_name, error, queue,
                   interval_coefficients, card, n_remaining, output, initial, dealt_at, log>>

\* study: the list the session returned is given to with_overriden_cards
ApplyOutput ==
    /\ pc = "done"
    /\ cards' = OverrideMatchingValues(cards, output)
    /\ pc' = "written"
    /\ UNCHANGED <<card_parsing_config, decks, now, deck_name, error, queue,
                   interval_coefficients, card, n_remaining, output, initial, dealt_at, log>>

StudyNext ==
    \/ \E name \in DeckNames : Deal(name)
    \/ Present
    \/ \E result \in CallbackResults : Answer(result)
    \/ Return
    \/ Tick
    \/ ApplyOutput

StudySpec == LiveInit /\ [][StudyNext]_vars

\* the cards of the snapshot the study starts from
CardsRead ==
    [p \in Paths |->
        [StoredCards[IF p < Len(StoredCards) THEN p ELSE Len(StoredCards)] EXCEPT !.path = p]]

\* C34: dealing and scoring leave the card map of the State as it was read;
\* with_overriden_cards puts each returned card under its uid and leaves the
\* stored cards that were not returned, and the decks, unchanged.
C34_SnapshotChangesOnWriteBack ==
    /\ pc # "written" => cards = CardsRead
    /\ pc = "written" =>
          /\ DOMAIN cards = DOMAIN CardsRead
          /\ \A k \in 1..Len(output) : cards[output[k].path] = output[k]
          /\ \A p \in DOMAIN cards :
                (\A k \in 1..Len(output) : output[k].path # p) => cards[p] = CardsRead[p]

\* a returned card replaced a stored card with another scheduling state after
\* Fail and a later score, and a stored card was not in the hand
C34_Witness ==
    /\ pc = "written"
    /\ NumFails >= 1
    /\ \E k \in 1..Len(output) :
          /\ cards[output[k].path] = output[k]
          /\ output[k].revision_settings # CardsRead[output[k].path].revision_settings
    /\ \E p \in DOMAIN cards :
          /\ \A k \in 1..Len(initial) : initial[k].path # p
          /\ cards[p] = CardsRead[p]

(* ------------------------ claims about transforms ---------------------- *)
\* two cards with the same path, deck list, question and answer
SameContent(c, d) ==
    /\ c.path = d.path
    /\ c.decks = d.decks
    /\ c.question = d.question
    /\ c.answer = d.answer

\* C35: the card a transform gives has the path, deck list, question and
\* answer of the card it was given, so every card a session holds has the uid
\* and the content of a card that was dealt.
C35_TransformKeepsContent ==
    InSession =>
        /\ \A j \in 1..Len(log) :
              log[j].result \in Scores =>
                  /\ SameContent(CardTransform(log[j].card, log[j].result,
                                               interval_coefficients, log[j].at),
                                 log[j].card)
                  /\ TransformedWith(j, interval_coefficients)
        /\ \A k \in 1..Len(Held) :
              /\ \E i \in 1..Len(initial) : initial[i].path = Held[k].path
              /\ SameContent(Held[k], AsDealt(Held[k].path))

\* a card of two decks is output with another scheduling state than it was
\* dealt with, after a Fail and a later score
C35_Witness ==
    /\ pc = "done"
    /\ NumFails >= 1
    /\ Len(Judged) >= 1
    /\ \E k \in 1..Len(Held) :
          /\ Len(Held[k].decks) = 2
          /\ Held[k].revision_settings # AsDealt(Held[k].path).revision_settings
          /\ SameContent(Held[k], AsDealt(Held[k].path))

\* C36 as stated: right after a review scored Hard, Pass or Easy the card's due
\* date is later than the instant of the review, so the card is not due.
C36_NotDueAfterScore ==
    \A i \in Reviews :
        log[i].result \in {"Hard", "Pass", "Easy"} =>
            /\ After(i).due > log[i].at
            /\ ~IsDue([log[i].card EXCEPT !.revision_settings = After(i)], log[i].at)

\* C36 amended: after a review scored Hard, Pass or Easy the card is no longer
\* due exactly when it was overdue by less than its new interval; that is so
\* whenever a card of interval zero or more is reviewed less than a day late,
\* while the example card, four days late, is still due after Hard.
C36_NotDueUnlessLate ==
    \A i \in Reviews :
        log[i].result \in {"Hard", "Pass", "Easy"} =>
            LET late == log[i].at - Before(i).due
                scored == [log[i].card EXCEPT !.revision_settings = After(i)]
            IN  /\ ~IsDue(scored, log[i].at) <=> late < SecondsOf(After(i).interval)
                /\ (Before(i).interval >= 0 /\ late < HoursInDay * SecondsInHour) =>
                      ~IsDue(scored, log[i].at)
                /\ (IsExample(i) /\ log[i].result = "Hard") => IsDue(scored, log[i].at)

\* the example card, given interval 2.4 by Hard, is still due
C36_Witness ==
    /\ pc = "reviewing"
    /\ Len(log) = 1
    /\ IsExample(1)
    /\ log[1].result = "Hard"
    /\ After(1).interval = 2400
    /\ After(1).due <= log[1].at

\* C37: a review scored Hard, Pass or Easy of a card whose interval is zero or
\* more moves the due date at least a day later; under a fail_coef of zero or
\* more a Fail of such a card does not move it earlier, and over any reviews
\* of a card that starts with such an interval the due date never decreases.
C37_DueNeverEarlier ==
    /\ \A i \in Reviews :
          Before(i).interval >= 0 =>
              /\ log[i].result \in {"Hard", "Pass", "Easy"} =>
                    After(i).due >= Before(i).due + HoursInDay * SecondsInHour
              /\ (log[i].result = "Fail" /\ interval_coefficients.fail_coef >= 0) =>
                    /\ After(i).due >= Before(i).due
                    /\ After(i).interval >= 0
    /\ (Reviews # {} /\ Before(1).interval >= 0 /\ interval_coefficients.fail_coef >= 0) =>
          \A i, j \in Reviews : i <= j => After(j).due >= After(i).due /\ After(i).due >= Before(i).due

\* a Fail that moved the due date later, then a Pass under pass_coef 0 that
\* moved it later by the fallback
C37_Witness ==
    /\ pc = "reviewing"
    /\ Len(log) = 2
    /\ interval_coefficients.fail_coef > 0
    /\ interval_coefficients.pass_coef = 0
    /\ log[1].result = "Fail"
    /\ After(1).due > Before(1).due
    /\ log[2].result = "Pass"
    /\ After(2).due >= After(1).due + HoursInDay * SecondsInHour

\* the whole hours in a number of seconds, truncated toward zero
WholeHours(seconds) ==
    CHOOSE h \in (IF seconds >= 0 THEN 0 ELSE seconds \div SecondsInHour)
                  ..(IF seconds >= 0 THEN seconds \div SecondsInHour + 1 ELSE 0) :
        IF seconds >= 0
        THEN h * SecondsInHour <= seconds /\ seconds < (h + 1) * SecondsInHour
        ELSE h * SecondsInHour >= seconds /\ seconds > (h - 1) * SecondsInHour

\* C39: the days overdue of a review are the whole hours since the due date,
\* truncated toward zero, divided by 24 (here in thousandths of a day): half a
\* day for a card twelve hours late, zero for a card less than an hour late;
\* the candidates of every review are computed with that value.
C39_DaysOverdueByHour ==
    \A i \in Reviews :
        LET late == log[i].at - Before(i).due
            days_overdue == DaysOverdue(Before(i), log[i].at)
            hard == CalculateHardInterval(Before(i), interval_coefficients, days_overdue)
            pass == CalculatePassInterval(Before(i), interval_coefficients, days_overdue, hard)
            easy == CalculateEasyInterval(Before(i), interval_coefficients, days_overdue, pass)
        IN  /\ days_overdue = TruncDiv(WholeHours(late) * Scale, HoursInDay)
            /\ late = 12 * SecondsInHour => days_overdue = Scale \div 2
            /\ (late >= 0 /\ late < SecondsInHour) => days_overdue = 0
            /\ (late >= 12 * SecondsInHour /\ late < 13 * SecondsInHour) =>
                  days_overdue = Scale \div 2
            /\ log[i].possible.Hard = hard
            /\ log[i].possible.Pass = pass
            /\ log[i].possible.Easy = easy

\* a card reviewed twelve and a half hours late: the half hour is dropped and
\* the half day counts in its candidates
C39_Witness ==
    /\ pc = "reviewing"
    /\ Len(log) = 1
    /\ log[1].at - Before(1).due = 12 * SecondsInHour + SecondsInHour \div 2
    /\ DaysOverdue(Before(1), log[1].at) = Scale \div 2
    /\ log[1].possible.Easy #
          CalculatePossibleIntervals([Before(1) EXCEPT !.due = log[1].at],
                                     interval_coefficients, log[1].at).Easy

====
